---- MODULE Spec2Model ----
(***************************************************************************)
(* State-machine model of the React Todo App (src/Source Code/src).        *)
(*                                                                         *)
(* TodoApp.jsx keeps the task list in a useState cell.  A handler reads    *)
(* the constant `todos` bound by the render it was created in and calls    *)
(* setTodos, which replaces the value of the cell; React then re-renders   *)
(* (binding `todos` again) and afterwards runs the persistence effect.     *)
(* The model has the cell (todosState), the value bound by the latest      *)
(* render (todos) and the stored item (localStorage).  A step of the model *)
(* is one task of the JavaScript event loop: React handles a click or a    *)
(* key press by running the handler and then, before the event returns,    *)
(* the re-render and the effects it made necessary, and no other callback  *)
(* runs in between.  SpecScheduled adds the updates React leaves to later  *)
(* tasks, SpecSound follows the output of SoundEngine.js, SpecFeedback     *)
(* follows it for the handlers, and SpecView has the overlays and the      *)
(* timers of the celebration.                                              *)
(*                                                                         *)
(* A text is a sequence of one-character strings; a stored JSON text is a  *)
(* sequence of tokens.                                                     *)
(***************************************************************************)
EXTENDS Integers, Sequences, FiniteSets

VARIABLES
    loading,          \* useState(true), TodoApp.jsx:128
    loadingProgress,  \* useState(0), TodoApp.jsx:129
    todosState,       \* the value held by the useState cell of TodoApp.jsx:132
    todos,            \* `todos` as bound by the latest render
    effectPending,    \* the persistence effect of the mount has not run yet
    localStorage,     \* the item 'react-todo-list' of window.localStorage
    inputValue,       \* useState(''), TodoApp.jsx:139
    priority,         \* useState('Medium'), TodoApp.jsx:141
    now,              \* the value Date.now() returns (milliseconds)
    audioAvailable,   \* whether window.AudioContext can be constructed
    audioCtx,         \* SoundEngine.audioCtx: FALSE is null, TRUE a context
    error,            \* the exception the latest handler let escape
    call,             \* the latest call of a list handler
    enabled,          \* SoundEngine.enabled
    monitored,        \* whether the output of the sound engine is followed
    emitted,          \* the backend objects the latest sound step created
    timers,           \* the setTimeout callbacks of SoundEngine not yet run
    showCredits,      \* useState(false), TodoApp.jsx:148
    showCelebration,  \* useState(false), TodoApp.jsx:147
    impact,           \* useState(false), TodoApp.jsx:146
    particles,        \* useState([]), TodoApp.jsx:144
    shockwaves,       \* useState([]), TodoApp.jsx:145
    timeouts,         \* the setTimeout callbacks of triggerBurst not yet run
    bursts            \* how many times triggerBurst has been called

\* The tones of a trigger and the callbacks of its later tones create objects
\* of the audio backend and change nothing else.  They are followed in the
\* specifications of the sound engine (monitored) and left out of the others.
sound == <<enabled, monitored, emitted, timers>>

\* The overlays and the effects of a celebration: they are changed by the
\* title, by the credits overlay and by triggerBurst and its callbacks only.
visual ==
    <<showCredits, showCelebration, impact, particles, shockwaves, timeouts,
      bursts>>

vars == <<loading, loadingProgress, todosState, todos, effectPending,
          localStorage, inputValue, priority, now, audioAvailable, audioCtx,
          error, call, enabled, monitored, emitted, timers, showCredits,
          showCelebration, impact, particles, shockwaves, timeouts, bursts>>

---------------------------------------------------------------------------
(* Bounds of the model *)

\* add is not offered once the list holds this many tasks
MaxTodos == 2

\* the largest list a previous session has left in localStorage (SpecStats)
MaxStored == 201

\* a trigger with later tones is not called while this many callbacks wait
MaxPending == 2

\* triggerBurst is not called more often than this
MaxBursts == 2

\* the instants at which Date.now() is read: two readings coincide or differ
Instants == {1, 2}

---------------------------------------------------------------------------
(* Texts *)

\* the texts the user types into the input field
Inputs == { <<>>, <<" ">>, <<"a">>, <<" ", "a">> }

\* the characters String.prototype.trim removes
Whitespace == {" "}

RECURSIVE TrimStart(_)
TrimStart(s) ==
    IF s # <<>> /\ Head(s) \in Whitespace THEN TrimStart(Tail(s)) ELSE s

RECURSIVE TrimEnd(_)
TrimEnd(s) ==
    IF s # <<>> /\ s[Len(s)] \in Whitespace
    THEN TrimEnd(SubSeq(s, 1, Len(s) - 1))
    ELSE s

\* a variant that removes nothing, as a test inputValue === '' would
TrimNothing(s) == s

\* String.prototype.trim
Trim(s) == TrimEnd(TrimStart(s))

---------------------------------------------------------------------------
(* Tasks and list operations *)

\* a variant with two of the levels exchanged
levelsExchanged == <<"Low", "High", "Medium">>

levels == <<"Low", "Medium", "High">>

Range(s) == { s[i] : i \in DOMAIN s }

Ids(list) == { list[i].id : i \in DOMAIN list }

\* a variant that gives every new task the default priority
NewTodoDefaultPriority(id, text, prio) ==
    [id |-> id, text |-> text, completed |-> FALSE, priority |-> "Medium"]

\* the object literal of addTodo
NewTodo(id, text, prio) ==
    [id |-> id, text |-> text, completed |-> FALSE, priority |-> prio]

\* a variant that marks the task completed instead of flipping it
MapComplete(list, id) ==
    [i \in DOMAIN list |->
        IF list[i].id = id THEN [list[i] EXCEPT !.completed = TRUE] ELSE list[i]]

\* a variant that moves the completed tasks behind the open ones
MapToggleSorted(list, id) ==
    LET toggled == [i \in DOMAIN list |->
                       IF list[i].id = id
                       THEN [list[i] EXCEPT !.completed = ~list[i].completed]
                       ELSE list[i]]
    IN  SelectSeq(toggled, LAMBDA t : ~t.completed)
           \o SelectSeq(toggled, LAMBDA t : t.completed)

\* todos.map(todo => todo.id === id ? {...todo, completed: !todo.completed} : todo)
MapToggle(list, id) ==
    [i \in DOMAIN list |->
        IF list[i].id = id
        THEN [list[i] EXCEPT !.completed = ~list[i].completed]
        ELSE list[i]]

\* a variant that removes the first match only, as splice(findIndex(..), 1) would
FilterOutFirst(list, id) ==
    LET hits == { i \in DOMAIN list : list[i].id = id }
    IN  IF hits = {} THEN list
        ELSE LET k == CHOOSE i \in hits : \A j \in hits : i <= j
             IN  SubSeq(list, 1, k - 1) \o SubSeq(list, k + 1, Len(list))

\* todos.filter(todo => todo.id !== id)
FilterOut(list, id) == SelectSeq(list, LAMBDA t : t.id # id)

\* todos.find(t => t.id === id): the first match, or none
Find(list, id) ==
    LET hits == { i \in DOMAIN list : list[i].id = id }
    IN  IF hits = {} THEN <<>>
        ELSE <<list[CHOOSE i \in hits : \A j \in hits : i <= j]>>

\* the orders Reorder.Group hands to onReorder: the rendered values, rearranged
Reorderings(list) ==
    { [i \in DOMAIN list |-> list[p[i]]] :
        p \in { q \in [DOMAIN list -> DOMAIN list] :
                    \A i, j \in DOMAIN list : q[i] = q[j] => i = j } } \ {list}

---------------------------------------------------------------------------
(* JSON text of a task list *)

\* A JSON text is modelled as the sequence of its array elements, each the
\* sequence of the tokens of that element.
Tok(t) == [t |-> t, n |-> 0, s |-> <<>>, b |-> FALSE]
NumTok(n) == [t |-> "num", n |-> n, s |-> <<>>, b |-> FALSE]
StrTok(s) == [t |-> "str", n |-> 0, s |-> s, b |-> FALSE]
BoolTok(b) == [t |-> "bool", n |-> 0, s |-> <<>>, b |-> b]

\* the tokens of one task: { id text completed priority }
ObjectTokens(todo) ==
    << Tok("{"), NumTok(todo.id), StrTok(todo.text), BoolTok(todo.completed),
       StrTok(<<todo.priority>>), Tok("}") >>

\* JSON.stringify(todos)
JSONstringify(list) == [i \in DOMAIN list |-> ObjectTokens(list[i])]

IsObject(toks) ==
    /\ Len(toks) = Len(ObjectTokens(NewTodo(0, <<>>, "")))
    /\ toks[1].t = "{"
    /\ toks[2].t = "num"
    /\ toks[3].t = "str"
    /\ toks[4].t = "bool"
    /\ toks[5].t = "str"
    /\ Len(toks[5].s) = 1
    /\ toks[6].t = "}"

\* a variant that reads every task as not completed
ObjectOfOpen(toks) ==
    [id |-> toks[2].n, text |-> toks[3].s,
     completed |-> FALSE, priority |-> toks[5].s[1]]

ObjectOf(toks) ==
    [id |-> toks[2].n, text |-> toks[3].s,
     completed |-> toks[4].b, priority |-> toks[5].s[1]]

\* JSON.parse(savedTodos) throws a SyntaxError
ParseThrows(text) == \E i \in DOMAIN text : ~IsObject(text[i])

\* JSON.parse(savedTodos)
JSONparse(text) == [i \in DOMAIN text |-> ObjectOf(text[i])]

\* localStorage.getItem returns null for a missing item
NoItem == [present |-> FALSE, text |-> <<>>]
Item(toks) == [present |-> TRUE, text |-> toks]

\* a stored text that breaks off inside its first element
Corrupt == Item(<< <<Tok("{")>> >>)

\* the useState initializer of todos throws
LoadThrows(item) == item.present /\ ParseThrows(item.text)

\* the useState initializer of todos
LoadTodos(item) == IF item.present THEN JSONparse(item.text) ELSE <<>>

---------------------------------------------------------------------------
(* Derived state of a render *)

totalTasks == Len(todos)

completedTasks == Len(SelectSeq(todos, LAMBDA t : t.completed))

\* The pairs <<completed, total>> with total <= 202 for which the double
\* (completed / total) * 100 lies just below the half-integer that is the exact
\* value, e.g. (23 / 40) * 100 = 57.49999999999999.  For every other pair the
\* double rounds as the exact quotient does.
BelowHalf ==
    { <<23, 40>>, <<46, 80>>, <<69, 120>>, <<92, 160>>,
      <<29, 200>>, <<57, 200>>, <<113, 200>>, <<115, 200>> }

\* a variant that truncates, as Math.floor would
MathFloor(completed, total) == (100 * completed) \div total

\* Math.round((completed / total) * 100): the nearest integer, a half rounds up
MathRound(completed, total) ==
    IF <<completed, total>> \in BelowHalf
    THEN (100 * completed) \div total
    ELSE (200 * completed + total) \div (2 * total)

progressPercentage ==
    IF totalTasks = 0 THEN 0 ELSE MathRound(completedTasks, totalTasks)

\* the condition under which the Victory-badge and the Clear button are rendered
VictoryShown == progressPercentage = 100 /\ totalTasks > 0

\* An exception that escapes from a render or from an effect makes React
\* unmount the component tree: nothing is rendered and no callback runs.
Crashed == error \in {"SyntaxError", "QuotaExceededError"}

\* the main list view is rendered (no loading screen and no overlay in its
\* place) and the effects of the mount have run
Interactive ==
    ~loading /\ ~effectPending /\ ~Crashed /\ ~showCredits /\ ~showCelebration

\* The record of the latest call of a list handler: which handler, the id it
\* was given, for toggle the list it found, whether the call before it was the
\* same one (n = 2), and whether the first of these same calls changed the list.
Other(op) == [op |-> op, id |-> 0, before |-> <<>>, n |-> 1, hit |-> FALSE]

NoCall == Other("none")

Call(op, id, before, changed) ==
    LET again == call.op = op /\ call.id = id
    IN  [op |-> op, id |-> id, before |-> before,
         n |-> IF again THEN 2 ELSE 1,
         hit |-> IF again THEN call.hit ELSE changed]

---------------------------------------------------------------------------
(* Initial states: the component has mounted and shows the loading screen *)

\* a list a previous session has stored: n tasks, the first c of them completed
StoredList(n, c) ==
    [i \in 1 .. n |->
        [id |-> i, text |-> <<"a">>, completed |-> (i <= c), priority |-> "Medium"]]

SavedItems == { NoItem, Item(JSONstringify(<<>>)), Corrupt }

\* no overlay is shown and no effect of a celebration exists
Hidden ==
    /\ showCredits = FALSE
    /\ showCelebration = FALSE
    /\ impact = FALSE
    /\ particles = <<>>
    /\ shockwaves = <<>>
    /\ timeouts = <<>>
    /\ bursts = 0

\* the first render; if the initializer of todos throws there is no list, the
\* render is abandoned and no effect is set up
Mounted(item, audio) ==
    /\ loading = TRUE
    /\ loadingProgress = 0
    /\ localStorage = item
    /\ todosState = IF LoadThrows(item) THEN <<>> ELSE LoadTodos(item)
    /\ todos = todosState
    /\ effectPending = ~LoadThrows(item)
    /\ inputValue = <<>>
    /\ priority = "Medium"
    /\ now = 1
    /\ audioAvailable = audio
    /\ audioCtx = FALSE
    /\ error = IF LoadThrows(item) THEN "SyntaxError" ELSE "none"
    /\ call = NoCall
    /\ enabled = TRUE
    /\ emitted = <<>>
    /\ timers = <<>>
    /\ Hidden

Init ==
    /\ \E item \in SavedItems, audio \in BOOLEAN : Mounted(item, audio)
    /\ monitored = FALSE

\* the state in which the loading screen has gone and the effect of the mount
\* has stored the list that was loaded
Started(list, audio) ==
    /\ loading = FALSE
    /\ loadingProgress = 100
    /\ localStorage = Item(JSONstringify(list))
    /\ todosState = list
    /\ todos = list
    /\ effectPending = FALSE
    /\ inputValue = <<>>
    /\ priority = "Medium"
    /\ now = 1
    /\ audioAvailable = audio
    /\ audioCtx = FALSE
    /\ error = "none"
    /\ call = NoCall
    /\ enabled = TRUE
    /\ emitted = <<>>
    /\ timers = <<>>
    /\ Hidden

\* the stored lists of SpecStats: up to MaxStored tasks of which none, one, all
\* but one or all are completed, and the lists of BelowHalf
StoredShapes ==
    { nc \in (0 .. MaxStored) \X (0 .. MaxStored) :
        /\ nc[2] <= nc[1]
        /\ \/ nc[2] \in {0, 1, nc[1] - 1, nc[1]}
           \/ <<nc[2], nc[1]>> \in BelowHalf }

InitStats ==
    /\ \E nc \in StoredShapes, audio \in BOOLEAN :
          Started(StoredList(nc[1], nc[2]), audio)
    /\ monitored = FALSE

---------------------------------------------------------------------------
(* The loading effect, TodoApp.jsx:217-235 *)

duration == 2500
intervalTime == 50
increment == 100 \div (duration \div intervalTime)

\* a variant that ends the loading once the progress is above 100
LoadingTickLate ==
    /\ loading
    /\ ~Crashed
    /\ IF loadingProgress > 100
       THEN loading' = FALSE /\ loadingProgress' = 100
       ELSE loading' = loading /\ loadingProgress' = loadingProgress + increment
    /\ UNCHANGED <<todosState, todos, effectPending, localStorage,
                   inputValue, priority, now, audioAvailable, audioCtx, error, call>>
    /\ UNCHANGED sound
    /\ UNCHANGED visual

LoadingTick ==
    /\ loading
    /\ ~Crashed
    /\ IF loadingProgress >= 100
       THEN loading' = FALSE /\ loadingProgress' = 100
       ELSE loading' = loading /\ loadingProgress' = loadingProgress + increment
    /\ UNCHANGED <<todosState, todos, effectPending, localStorage,
                   inputValue, priority, now, audioAvailable, audioCtx, error, call>>
    /\ UNCHANGED sound
    /\ UNCHANGED visual

---------------------------------------------------------------------------
(* React: the persistence effect and setTodos, TodoApp.jsx:132, 155-158 *)

\* a variant whose effect runs after the mount only (dependency array [])
setTodosNotStored(value) ==
    /\ todosState' = value
    /\ todos' = value
    /\ effectPending' = FALSE
    /\ localStorage' = localStorage

\* setTodos(value) and the flush that ends the event: the re-render binds
\* `todos` to the new array, whose identity differs from the old one's, so
\* the effect with dependency [todos] runs and stores it
setTodos(value) ==
    /\ todosState' = value
    /\ todos' = value
    /\ effectPending' = FALSE
    /\ localStorage' = Item(JSONstringify(value))

\* the handler returned or threw before it called setTodos
NoUpdate == UNCHANGED <<todosState, todos, effectPending, localStorage>>

\* the effect of the mount, which runs after the first render
PersistEffect ==
    /\ effectPending
    /\ ~Crashed
    /\ localStorage' = Item(JSONstringify(todos))
    /\ effectPending' = FALSE
    /\ UNCHANGED <<loading, loadingProgress, todosState, todos, inputValue,
                   priority, now, audioAvailable, audioCtx, error, call>>
    /\ UNCHANGED sound
    /\ UNCHANGED visual

---------------------------------------------------------------------------
(* SoundEngine.js: init() and the triggers the handlers call *)

\* init() throws: no context yet and the constructor is missing
InitThrows == ~audioCtx /\ ~audioAvailable

\* init(): creates the context unless there is one; throws without constructor
Trigger ==
    /\ audioCtx' = (audioCtx \/ audioAvailable)
    /\ error' = IF InitThrows THEN "TypeError" ELSE "none"

\* the backend objects: the context, and an oscillator with its gain node
\* (Hz, waveform, milliseconds, thousandths of full gain)
Context == [node |-> "AudioContext", freq |-> 0, type |-> "", ms |-> 0, vol |-> 0]

Osc(freq, type, ms, vol) ==
    [node |-> "Oscillator", freq |-> freq, type |-> type, ms |-> ms, vol |-> vol]

\* a variant of init() without the test for an existing context
CreatedAnew == <<Context>>

\* what a successful init() creates
Created == IF audioCtx THEN <<>> ELSE <<Context>>

\* a variant of createOscillator without the test of enabled
createOscillatorAlways(ctx, tone) == IF ~ctx THEN <<>> ELSE <<tone>>

\* createOscillator(freq, type, duration, volume), with the context ctx
createOscillator(ctx, tone) == IF ~ctx \/ ~enabled THEN <<>> ELSE <<tone>>

\* setTimeout(callback, delay): the tone of the callback, whether the callback
\* goes through createOscillator (guarded), and whether the engine was disabled
\* when the timer was set (muted)
Timer(tone, delay, guarded) ==
    [tone |-> tone, delay |-> delay, guarded |-> guarded, muted |-> ~enabled]

\* a variant in which the timers of a trigger take the place of the waiting
\* ones
OutputReplacing(atOnce, later) ==
    IF ~monitored THEN UNCHANGED <<emitted, timers>>
    ELSE IF InitThrows THEN emitted' = <<>> /\ timers' = timers
    ELSE /\ emitted' = Created \o atOnce
         /\ later # <<>> => Len(timers) < MaxPending
         /\ timers' = later

\* what follows init() in a trigger: the objects created at once and the
\* timers set; nothing if init() has thrown
Output(atOnce, later) ==
    IF ~monitored THEN UNCHANGED <<emitted, timers>>
    ELSE IF InitThrows THEN emitted' = <<>> /\ timers' = timers
    ELSE /\ emitted' = Created \o atOnce
         /\ later # <<>> => Len(timers) < MaxPending
         /\ timers' = timers \o later

\* a trigger: init(), a tone at once and the timers of the later tones
Play(tone, later) == Trigger /\ Output(createOscillator(TRUE, tone), later)

playClick == Play(Osc(800, "square", 50, 20), <<>>)

playAdd ==
    Play(Osc(400, "sine", 100, 50),
         <<Timer(Osc(600, "sine", 150, 50), 50, TRUE)>>)

playToggle(completed) ==
    IF completed
    THEN Play(Osc(1200, "sine", 100, 30),
              <<Timer(Osc(1500, "sine", 200, 20), 40, TRUE)>>)
    ELSE Play(Osc(600, "sine", 100, 30), <<>>)

playDelete == Play(Osc(300, "sawtooth", 100, 20), <<>>)

baseFreq == 220

\* the harmonics [1, 1.5, 2, 2.5, 3], in halves
harmonics == <<2, 3, 4, 5, 6>>

\* playVictory: init(), then a callback per harmonic, i * 150 ms later, which
\* creates its oscillator and gain node itself
playVictory ==
    /\ Trigger
    /\ Output(<<>>,
              [i \in DOMAIN harmonics |->
                  Timer(Osc((baseFreq * harmonics[i]) \div 2, "sine", 2500, 50),
                        (i - 1) * 150, FALSE)])

playCredits ==
    Play(Osc(660, "sine", 1200, 20),
         <<Timer(Osc(440, "sine", 1500, 20), 100, TRUE)>>)

\* setEnabled(val)
setEnabled(val) ==
    /\ enabled' = val
    /\ emitted' = <<>>
    /\ UNCHANGED <<audioCtx, error, timers>>

\* A pending callback can run next unless one set earlier is due no later.
Due(k) == \A i \in 1 .. (k - 1) : timers[i].delay > timers[k].delay

\* the k-th pending setTimeout callback of the engine runs
FireTimer(k) ==
    /\ Due(k)
    /\ emitted' = IF timers[k].guarded
                  THEN createOscillator(audioCtx, timers[k].tone)
                  ELSE <<timers[k].tone>>
    /\ timers' = SubSeq(timers, 1, k - 1) \o SubSeq(timers, k + 1, Len(timers))
    /\ UNCHANGED <<loading, loadingProgress, todosState, todos, effectPending,
                   localStorage, inputValue, priority, now, audioAvailable,
                   audioCtx, error, call, enabled, monitored>>
    /\ UNCHANGED visual

TimerFires == \E k \in DOMAIN timers : FireTimer(k)

---------------------------------------------------------------------------
(* The handlers of TodoApp.jsx *)

\* onChange of the input field, TodoApp.jsx:546 (of no use once no further
\* add is offered)
onChange(value) ==
    /\ Interactive
    /\ Len(todos) < MaxTodos
    /\ value # inputValue
    /\ inputValue' = value
    /\ UNCHANGED <<loading, loadingProgress, todosState, todos, effectPending,
                   localStorage, priority, now, audioAvailable, audioCtx, error,
                   call>>
    /\ UNCHANGED sound
    /\ UNCHANGED visual

IndexOf(seq, x) == CHOOSE i \in DOMAIN seq : seq[i] = x

\* onClick of the Priority-toggle, TodoApp.jsx:530-534
changePriority ==
    /\ Interactive
    /\ priority' = levels[(IndexOf(levels, priority) % Len(levels)) + 1]
    /\ UNCHANGED <<loading, loadingProgress, todosState, todos, effectPending,
                   localStorage, inputValue, now, audioAvailable, audioCtx, error,
                   call>>
    /\ UNCHANGED sound
    /\ UNCHANGED visual

addTodo ==
    /\ Interactive
    /\ (Trim(inputValue) = <<>> \/ Len(todos) < MaxTodos)
    /\ IF Trim(inputValue) = <<>>
       THEN /\ error' = "none"
            /\ NoUpdate
            /\ UNCHANGED <<inputValue, audioCtx, emitted, timers>>
       ELSE /\ setTodos(<<NewTodo(now, inputValue, priority)>> \o todos)
            /\ inputValue' = <<>>
            /\ playAdd
    /\ call' = Other(IF Trim(inputValue) = <<>> THEN "rejected" ELSE "add")
    /\ UNCHANGED <<loading, loadingProgress, priority, now, audioAvailable,
                   enabled, monitored>>
    /\ UNCHANGED visual

toggleTodo(id) ==
    /\ Interactive
    /\ LET todoToToggle == Find(todos, id)
       IN  IF todoToToggle # <<>> /\ InitThrows
           THEN /\ playToggle(~todoToToggle[1].completed)
                /\ NoUpdate
           ELSE /\ IF todoToToggle # <<>>
                   THEN playToggle(~todoToToggle[1].completed)
                   ELSE /\ error' = "none"
                        /\ UNCHANGED <<audioCtx, emitted, timers>>
                /\ setTodos(MapToggle(todos, id))
    /\ call' = Call("toggle", id, todosState, todosState' # todosState)
    /\ UNCHANGED <<loading, loadingProgress, inputValue, priority, now,
                   audioAvailable, enabled, monitored>>
    /\ UNCHANGED visual

deleteTodo(id) ==
    /\ Interactive
    /\ playDelete
    /\ IF InitThrows
       THEN NoUpdate
       ELSE setTodos(FilterOut(todos, id))
    /\ call' = Call("delete", id, <<>>, todosState' # todosState)
    /\ UNCHANGED <<loading, loadingProgress, inputValue, priority, now,
                   audioAvailable, enabled, monitored>>
    /\ UNCHANGED visual

\* a variant that rebuilds the tasks of the new order as not completed
onReorderRebuilt(newOrder) ==
    /\ Interactive
    /\ todos # <<>>
    /\ setTodos([i \in DOMAIN newOrder |->
                    NewTodo(newOrder[i].id, newOrder[i].text, newOrder[i].priority)])
    /\ error' = "none"
    /\ call' = Other("reorder")
    /\ UNCHANGED <<loading, loadingProgress, inputValue, priority, now,
                   audioAvailable, audioCtx>>
    /\ UNCHANGED sound
    /\ UNCHANGED visual

\* onReorder={setTodos}, TodoApp.jsx:584-590
onReorder(newOrder) ==
    /\ Interactive
    /\ todos # <<>>
    /\ setTodos(newOrder)
    /\ error' = "none"
    /\ call' = Other("reorder")
    /\ UNCHANGED <<loading, loadingProgress, inputValue, priority, now,
                   audioAvailable, audioCtx>>
    /\ UNCHANGED sound
    /\ UNCHANGED visual

\* a variant that removes the completed tasks only
clearFinished ==
    /\ Interactive
    /\ VictoryShown
    /\ setTodos(SelectSeq(todos, LAMBDA t : ~t.completed))
    /\ error' = "none"
    /\ call' = Other("clear")
    /\ UNCHANGED <<loading, loadingProgress, inputValue, priority, now,
                   audioAvailable, audioCtx>>
    /\ UNCHANGED sound
    /\ UNCHANGED visual

\* onClick of the Clear-all button, TodoApp.jsx:605-619
clearAll ==
    /\ Interactive
    /\ VictoryShown
    /\ setTodos(<<>>)
    /\ error' = "none"
    /\ call' = Other("clear")
    /\ UNCHANGED <<loading, loadingProgress, inputValue, priority, now,
                   audioAvailable, audioCtx>>
    /\ UNCHANGED sound
    /\ UNCHANGED visual

\* time passes (of no use once no further add is offered)
Tick ==
    /\ Len(todos) < MaxTodos
    /\ \E t \in Instants : t > now /\ now' = t
    /\ UNCHANGED <<loading, loadingProgress, todosState, todos, effectPending,
                   localStorage, inputValue, priority, audioAvailable, audioCtx,
                   error, call>>
    /\ UNCHANGED sound
    /\ UNCHANGED visual

\* the ids a toggle or delete call is made with: present ones and absent ones
IdSpace == {0} \cup Instants

Change == \E value \in Inputs : onChange(value)
Toggle == \E id \in IdSpace : toggleTodo(id)
Delete == \E id \in IdSpace : deleteTodo(id)
Reorder == \E newOrder \in Reorderings(todos) : onReorder(newOrder)

Next ==
    \/ LoadingTick
    \/ PersistEffect
    \/ Tick
    \/ Change
    \/ changePriority
    \/ addTodo
    \/ Toggle
    \/ Delete
    \/ Reorder
    \/ clearAll

Spec == Init /\ [][Next]_vars

\* the user toggles the first task of a long stored list, or clears the list
ToggleFirst == todos # <<>> /\ toggleTodo(todos[1].id)

NextStats == ToggleFirst \/ clearAll

\* setInterval runs its callback: a tick of the loading does not wait for ever
SpecLoading == Spec /\ WF_vars(LoadingTick)

SpecStats == InitStats /\ [][NextStats]_vars

---------------------------------------------------------------------------
(* Updates that React does not flush before the callback returns *)

\* Reorder.Group calls onReorder from the pointer-move handling of a drag,
\* outside a click or key event: setTodos queues the new order, and the
\* re-render and the effect are left to later tasks of the scheduler.
onReorderQueued(newOrder) ==
    /\ Interactive
    /\ todos # <<>>
    /\ todosState' = newOrder
    /\ error' = "none"
    /\ call' = Other("reorder")
    /\ UNCHANGED <<loading, loadingProgress, todos, effectPending, localStorage,
                   inputValue, priority, now, audioAvailable, audioCtx>>
    /\ UNCHANGED sound
    /\ UNCHANGED visual

Drag == \E newOrder \in Reorderings(todos) : onReorderQueued(newOrder)

\* the re-render for a queued update: it binds `todos` to the value of the
\* cell and leaves the persistence effect to run
Render ==
    /\ ~Crashed
    /\ todos # todosState
    /\ todos' = todosState
    /\ effectPending' = TRUE
    /\ UNCHANGED <<loading, loadingProgress, todosState, localStorage, inputValue,
                   priority, now, audioAvailable, audioCtx, error, call>>
    /\ UNCHANGED sound
    /\ UNCHANGED visual

\* localStorage.setItem throws in the persistence effect (quota exceeded,
\* storage disabled); nothing catches it
PersistFails ==
    /\ effectPending
    /\ ~Crashed
    /\ error' = "QuotaExceededError"
    /\ effectPending' = FALSE
    /\ UNCHANGED <<loading, loadingProgress, todosState, todos, localStorage,
                   inputValue, priority, now, audioAvailable, audioCtx, call>>
    /\ UNCHANGED sound
    /\ UNCHANGED visual

NextScheduled == Next \/ Drag \/ Render \/ PersistFails

SpecScheduled == Init /\ [][NextScheduled]_vars

\* the list and its persistence alone: a session that finds no item, an empty
\* list, an unparseable text or a list of two tasks, and every way in which
\* the list changes and is rendered and stored
InitSynced ==
    /\ \E item \in SavedItems \cup { Item(JSONstringify(StoredList(2, 1))) },
          audio \in BOOLEAN : Mounted(item, audio)
    /\ monitored = FALSE

NextSynced ==
    \/ LoadingTick
    \/ PersistEffect
    \/ PersistFails
    \/ Change
    \/ addTodo
    \/ Toggle
    \/ Delete
    \/ Reorder
    \/ Drag
    \/ Render
    \/ clearAll

SpecSynced == InitSynced /\ [][NextSynced]_vars

---------------------------------------------------------------------------
(* The sound engine on its own: a client calls its methods *)

InitSound ==
    /\ \E audio \in BOOLEAN : Started(<<>>, audio)
    /\ monitored = TRUE

\* a call of a method of the engine from outside the handlers
Engine(method) ==
    /\ method
    /\ UNCHANGED <<loading, loadingProgress, todosState, todos, effectPending,
                   localStorage, inputValue, priority, now, audioAvailable, call,
                   monitored>>
    /\ UNCHANGED visual

Sound(trigger) == Engine(trigger /\ enabled' = enabled)

Switch == \E val \in BOOLEAN : val # enabled /\ Engine(setEnabled(val))
Click == Sound(playClick)
AddSound == Sound(playAdd)
ToggleSound == \E completed \in BOOLEAN : Sound(playToggle(completed))
DeleteSound == Sound(playDelete)
Victory == Sound(playVictory)
Credits == Sound(playCredits)

\* a call of any of the triggers
AnyTrigger ==
    Click \/ AddSound \/ ToggleSound \/ DeleteSound \/ Victory \/ Credits

NextSound == Switch \/ AnyTrigger \/ TimerFires

SpecSound == InitSound /\ [][NextSound]_vars

---------------------------------------------------------------------------
(* The views, the overlays and triggerBurst, TodoApp.jsx:165-210, 325-690 *)

\* what TodoApp returns: the loading screen, or the header with one of the
\* credits overlay, the main list and the celebration overlay below it
View ==
    IF Crashed THEN "none"
    ELSE IF loading THEN "loading"
    ELSE IF showCredits THEN "credits"
    ELSE IF ~showCelebration THEN "main"
    ELSE "celebration"

\* the text of Loading-title and of the h1 of TodoApp-header
Title == "React Todo App"

\* a variant in which an overlay takes the place of the header too
RenderedOverlayOnly ==
    CASE View = "none" -> {}
      [] View = "loading" -> {Title}
      [] View = "credits" -> {"SOURCE CODE", "REACT TODO APP"}
      [] View = "main" ->
            {Title} \cup (IF VictoryShown THEN {"GOAL ACHIEVED"} ELSE {})
      [] View = "celebration" -> {"SYSTEM LOG", "GOAL ACHIEVED"}

\* the headings on the screen
Rendered ==
    CASE View = "none" -> {}
      [] View = "loading" -> {Title}
      [] View = "credits" -> {Title, "SOURCE CODE", "REACT TODO APP"}
      [] View = "main" ->
            {Title} \cup (IF VictoryShown THEN {"GOAL ACHIEVED"} ELSE {})
      [] View = "celebration" -> {Title, "SYSTEM LOG", "GOAL ACHIEVED"}

\* Array.from({ length: 20 })
ParticleCount == 20

\* newParticles of the b-th call: the array whose identity the cleanup tests;
\* the random shape of a particle is left out
NewParticles(b) == [i \in 1 .. ParticleCount |-> [id |-> now + (i - 1), of |-> b]]

\* setTimeout(callback, delay) of triggerBurst: what the callback does, and the
\* array and the shockwave it closes over
Timeout(does, delay, b) == [does |-> does, delay |-> delay, of |-> b, id |-> now]

\* a variant of triggerBurst without the callback that returns to the list
ScheduledToStay(b) ==
    << Timeout("setImpact", 300, b), Timeout("show", 400, b),
       Timeout("particles", 1000, b), Timeout("shockwaves", 800, b) >>

\* the callbacks of one call, in the order in which they are set
Scheduled(b) ==
    << Timeout("setImpact", 300, b), Timeout("show", 400, b),
       Timeout("hide", 6500, b), Timeout("particles", 1000, b),
       Timeout("shockwaves", 800, b) >>

\* a variant of triggerBurst that also clears the list it celebrates
BurstTasksCleared == setTodos(<<>>)

\* what triggerBurst does to the task list: nothing
BurstTasks == NoUpdate

\* onClick={triggerBurst} of the Victory-badge, TodoApp.jsx:165-210, 472
triggerBurst ==
    /\ Interactive
    /\ VictoryShown
    /\ bursts < MaxBursts
    /\ bursts' = bursts + 1
    /\ shockwaves' = Append(shockwaves, [id |-> now])
    /\ impact' = TRUE
    /\ particles' = particles \o NewParticles(bursts + 1)
    /\ timeouts' = timeouts \o Scheduled(bursts + 1)
    /\ BurstTasks
    /\ UNCHANGED <<loading, loadingProgress, inputValue, priority, now,
                   audioAvailable, audioCtx, error, call, showCredits,
                   showCelebration>>
    /\ UNCHANGED sound

\* A pending callback can run next unless one set earlier is due no later.
DueTimeout(k) == \A i \in 1 .. (k - 1) : timeouts[i].delay > timeouts[k].delay

\* the k-th pending callback of triggerBurst runs
RunTimeout(k) ==
    LET t == timeouts[k]
    IN  /\ DueTimeout(k)
        /\ timeouts' = SubSeq(timeouts, 1, k - 1)
                          \o SubSeq(timeouts, k + 1, Len(timeouts))
        /\ impact' = IF t.does = "setImpact" THEN FALSE ELSE impact
        /\ showCelebration' = CASE t.does = "show" -> TRUE
                                [] t.does = "hide" -> FALSE
                                [] OTHER -> showCelebration
        /\ IF t.does = "show"
           THEN playVictory
           ELSE UNCHANGED <<audioCtx, error, emitted, timers>>
        /\ particles' = IF t.does = "particles"
                        THEN SelectSeq(particles, LAMBDA p : p.of # t.of)
                        ELSE particles
        /\ shockwaves' = IF t.does = "shockwaves"
                         THEN SelectSeq(shockwaves, LAMBDA w : w.id # t.id)
                         ELSE shockwaves
        /\ UNCHANGED <<loading, loadingProgress, todosState, todos,
                       effectPending, localStorage, inputValue, priority, now,
                       audioAvailable, call, enabled, monitored, showCredits,
                       bursts>>

TimeoutFires == \E k \in DOMAIN timeouts : RunTimeout(k)

\* onClick of the h1 of the header, TodoApp.jsx:362-365
openCredits ==
    /\ ~loading /\ ~effectPending /\ ~Crashed
    /\ showCredits' = TRUE
    /\ playCredits
    /\ UNCHANGED <<loading, loadingProgress, todosState, todos, effectPending,
                   localStorage, inputValue, priority, now, audioAvailable,
                   call, enabled, monitored, showCelebration, impact,
                   particles, shockwaves, timeouts, bursts>>

\* onClick of the credits overlay, TodoApp.jsx:382
closeCredits ==
    /\ View = "credits"
    /\ ~effectPending
    /\ showCredits' = FALSE
    /\ UNCHANGED <<loading, loadingProgress, todosState, todos, effectPending,
                   localStorage, inputValue, priority, now, audioAvailable,
                   audioCtx, error, call, showCelebration, impact, particles,
                   shockwaves, timeouts, bursts>>
    /\ UNCHANGED sound

\* the items a previous session has left: none, an empty list, an unparseable
\* text, and a list of which every task is completed
ViewItems == SavedItems \cup { Item(JSONstringify(StoredList(1, 1))) }

InitView ==
    /\ \E item \in ViewItems, audio \in BOOLEAN : Mounted(item, audio)
    /\ monitored = FALSE

NextView ==
    \/ LoadingTick
    \/ PersistEffect
    \/ Tick
    \/ changePriority
    \/ ToggleFirst
    \/ clearAll
    \/ triggerBurst
    \/ TimeoutFires
    \/ openCredits
    \/ closeCredits

SpecView == InitView /\ [][NextView]_vars

\* setInterval and setTimeout run their callbacks: none waits for ever
SpecViewFair == SpecView /\ WF_vars(LoadingTick) /\ WF_vars(TimeoutFires)

---------------------------------------------------------------------------
(* Properties of the task list *)

\* a text that is empty or consists of whitespace only
Blank(s) == \A i \in DOMAIN s : s[i] = " "

\* how often a value occurs in a list
Count(list, x) == Cardinality({ i \in DOMAIN list : list[i] = x })

\* C1: an add with a non-blank text puts a new task at the head of the list,
\* with the text of the input, completed false and the selected priority, in
\* front of the tasks that were there, so that the list grows by one; an add
\* grows the list by one exactly when its text is not blank.
AddPrepends ==
    [][addTodo =>
        /\ ~Blank(inputValue) =>
             /\ Len(todosState') = Len(todosState) + 1
             /\ Head(todosState').text = inputValue
             /\ Head(todosState').completed = FALSE
             /\ Head(todosState').priority = priority
             /\ Tail(todosState') = todosState
        /\ Blank(inputValue) => Len(todosState') = Len(todosState)]_vars

\* an add of " a" with priority High in front of a completed task
AddPrependsWitness ==
    /\ call.op = "add"
    /\ Len(todosState) = 2
    /\ todosState[1].text = <<" ", "a">>
    /\ todosState[1].priority = "High"
    /\ ~todosState[1].completed
    /\ todosState[2].completed
    /\ todosState[2].priority = "Low"

\* C2: an add whose text is empty or whitespace only changes neither the list
\* nor the stored item, and raises no error.
BlankAddIsNoOp ==
    [][(addTodo /\ Blank(inputValue)) =>
        /\ todosState' = todosState
        /\ todos' = todos
        /\ localStorage' = localStorage
        /\ error' = "none"]_vars

\* a whitespace-only add was rejected while the list held a task
BlankAddWitness ==
    /\ call.op = "rejected"
    /\ inputValue = <<" ">>
    /\ todosState # <<>>
    /\ error = "none"

\* C3: the ids of the tasks in the list are pairwise distinct at all times.
IdsUnique ==
    \A i, j \in DOMAIN todosState :
        todosState[i].id = todosState[j].id => i = j

\* C4: the text of every task in the list is non-empty and equal to its
\* trimmed form.
TextsTrimmed ==
    \A i \in DOMAIN todosState :
        /\ todosState[i].text # <<>>
        /\ todosState[i].text[1] # " "
        /\ todosState[i].text[Len(todosState[i].text)] # " "

\* C5: a toggle of a task's id followed by a second toggle of the same id
\* yields the list there was before the first of the two.
ToggleTwice ==
    [][\A id \in IdSpace :
        (call.op = "toggle" /\ call.id = id /\ toggleTodo(id)) =>
            todosState' = call.before]_vars

\* the second of two toggles of a task, the first of which changed the list
ToggleTwiceWitness ==
    /\ call.op = "toggle"
    /\ call.n = 2
    /\ call.hit
    /\ call.id \in Ids(todosState)
    /\ call.before # todosState

\* C6: a delete of an id followed by a second delete of the same id leaves the
\* list as the first delete left it.
DeleteTwice ==
    [][\A id \in IdSpace :
        (call.op = "delete" /\ call.id = id /\ deleteTodo(id)) =>
            todosState' = todosState]_vars

\* the second of two deletes, the first of which removed a task and left others
DeleteTwiceWitness ==
    /\ call.op = "delete"
    /\ call.n = 2
    /\ call.hit
    /\ todosState # <<>>

\* C7: a toggle or a delete with an id that no task of the list has leaves the
\* list unchanged and raises no error.
UnknownIdIsNoOp ==
    [][\A id \in IdSpace \ Ids(todosState) :
        (toggleTodo(id) \/ deleteTodo(id)) =>
            /\ todosState' = todosState
            /\ error' = "none"]_vars

\* C8: a reorder changes positions only: every task occurs in the new list as
\* often as in the old one, with the same id, text, completed and priority.
ReorderKeepsTasks ==
    [][(call'.op = "reorder" /\ todosState' # todosState) =>
        /\ Len(todosState') = Len(todosState)
        /\ \A t \in Range(todosState) \cup Range(todosState') :
              Count(todosState', t) = Count(todosState, t)]_vars

\* a reorder has put the older of two different tasks in front
ReorderWitness ==
    /\ call.op = "reorder"
    /\ Len(todosState) = 2
    /\ todosState[1].id < todosState[2].id
    /\ todosState[1].completed
    /\ ~todosState[2].completed

---------------------------------------------------------------------------
(* Properties of the statistics *)

\* the number of completed tasks of the list in the state cell
Done == Cardinality({ i \in DOMAIN todosState : todosState[i].completed })

VictoryIffAllCompleted ==
    VictoryShown <=>
        /\ Len(todosState) >= 1
        /\ \A i \in DOMAIN todosState : todosState[i].completed

---------------------------------------------------------------------------
(* Properties of persistence and of the order of updates *)

\* the operations that change the list
Mutations == {"add", "toggle", "delete", "reorder", "clear"}

\* C11: once a mutating operation has returned, the stored text is the
\* serialization of the list it left; the list in memory is never ahead of
\* the stored text.
WriteThrough ==
    call.op \in Mutations => localStorage = Item(JSONstringify(todosState))

\* C12: storing a list and loading it again gives the same tasks in the same
\* order with the same id, text, completed and priority: the load of the
\* serialization of the list is the list, and once the persistence effect of
\* a render has run, the load of the stored item is the list of that render.
RoundTrip ==
    /\ ~LoadThrows(Item(JSONstringify(todosState)))
    /\ LoadTodos(Item(JSONstringify(todosState))) = todosState
    /\ (~effectPending /\ ~Crashed) =>
          (~LoadThrows(localStorage) /\ LoadTodos(localStorage) = todos)

\* two different tasks are stored, the first completed and with a text that
\* starts with a space, after a reorder
RoundTripWitness ==
    /\ Interactive
    /\ call.op = "reorder"
    /\ Len(todosState) = 2
    /\ todosState[1].completed /\ ~todosState[2].completed
    /\ todosState[1].text = <<" ", "a">> /\ todosState[2].text = <<"a">>
    /\ todosState[1].priority = "High" /\ todosState[2].priority = "Low"
    /\ todosState[1].id # todosState[2].id
    /\ localStorage = Item(JSONstringify(todosState))

\* a stored text that is not the text of a list of tasks
Unreadable(item) ==
    item.present /\ \E i \in DOMAIN item.text :
        \/ Len(item.text[i]) # 6
        \/ item.text[i][6].t # "}"

\* C13: if the stored item is missing or is not the text of a list of tasks,
\* the start raises no error and the list is empty.
LoadFailSoft ==
    (~localStorage.present \/ Unreadable(localStorage)) =>
        (error = "none" /\ todosState = <<>> /\ todos = <<>>)

\* C14: if the write of the persistence effect fails, the list in memory keeps
\* the mutation, no error escapes, and the application goes on: its handlers
\* stay available once the loading screen has gone.
WriteFailureContained ==
    [][PersistFails =>
        /\ todosState' = todosState
        /\ todos' = todos
        /\ error' = "none"
        /\ ~Crashed'
        /\ ~loading => Interactive']_vars

\* C15: where no audio context can be created, add, toggle and delete still
\* change the list as they do otherwise, and no error escapes from them.
AudioFailureContained ==
    [][/\ (addTodo /\ ~Blank(inputValue)) =>
             (error' = "none" /\ Len(todosState') = Len(todosState) + 1)
       /\ \A id \in IdSpace :
             toggleTodo(id) =>
                /\ error' = "none"
                /\ Len(todosState') = Len(todosState)
                /\ \A i \in DOMAIN todosState :
                      todosState'[i].completed =
                          (todosState[i].completed # (todosState[i].id = id))
       /\ \A id \in IdSpace :
             deleteTodo(id) =>
                /\ error' = "none"
                /\ id \notin Ids(todosState')]_vars

\* C18: the list after a handler is the result of its mutation on the list
\* the handlers before it have left, also when the view has not been rendered
\* again since: no mutation is lost or overwritten.
DispatchOrder ==
    [][/\ (addTodo /\ ~Blank(inputValue)) => Tail(todosState') = todosState
       /\ \A id \in IdSpace :
             (toggleTodo(id) /\ error' = "none") =>
                /\ Len(todosState') = Len(todosState)
                /\ \A i \in DOMAIN todosState :
                      todosState'[i] =
                          [todosState[i] EXCEPT
                              !.completed = (@ # (todosState[i].id = id))]
       /\ \A id \in IdSpace :
             (deleteTodo(id) /\ error' = "none") =>
                todosState' = SelectSeq(todosState, LAMBDA t : t.id # id)]_vars

\* C19: after clearAll the list is empty, the statistics are 0, 0 and 0, the
\* Victory-badge and the Clear button are no longer shown, and the stored text
\* is the serialization of the empty list.
ClearEmpties ==
    [][clearAll =>
        /\ todosState' = <<>>
        /\ totalTasks' = 0
        /\ completedTasks' = 0
        /\ progressPercentage' = 0
        /\ ~VictoryShown'
        /\ localStorage' = [present |-> TRUE, text |-> <<>>]]_vars

\* the list has been cleared and the empty list is stored
ClearWitness ==
    /\ call.op = "clear"
    /\ todosState = <<>>
    /\ totalTasks = 0
    /\ localStorage = [present |-> TRUE, text |-> <<>>]

\* the priorities a task can have
Priorities == {"Low", "Medium", "High"}

\* C20: the selected priority is Medium at first and always one of Low,
\* Medium, High; a changePriority step turns Low into Medium, Medium into High
\* and High into Low; and every task that add creates has one of the three.
PriorityCycle ==
    /\ priority = "Medium"
    /\ [](priority \in Priorities)
    /\ [][/\ changePriority =>
                \/ priority = "Low" /\ priority' = "Medium"
                \/ priority = "Medium" /\ priority' = "High"
                \/ priority = "High" /\ priority' = "Low"
          /\ (addTodo /\ ~Blank(inputValue)) =>
                Head(todosState').priority \in Priorities]_vars

\* the selection has gone round to Low after a task was added with High
PriorityCycleWitness ==
    /\ priority = "Low"
    /\ call.op = "add"
    /\ todosState # <<>>
    /\ todosState[1].priority = "High"

---------------------------------------------------------------------------
(* Properties of the sound engine *)

\* C16: while the engine is disabled, a call of a trigger creates no audio
\* context and no oscillator or gain node, and neither does a callback of a
\* timer that was set while the engine was disabled.
SilentWhenDisabled ==
    [][/\ (~enabled /\ AnyTrigger) => (audioCtx' = audioCtx /\ emitted' = <<>>)
       /\ \A k \in DOMAIN timers :
             (~enabled /\ timers[k].muted /\ FireTimer(k)) => emitted' = <<>>]_vars

\* C17: there is no context until a trigger is called; a call of a trigger
\* leaves the engine with a context where the backend offers one; and once
\* there is a context it stays, no trigger, setEnabled or callback creates
\* another one or resets it.
ContextOnce ==
    [][/\ audioCtx' # audioCtx => AnyTrigger
       /\ (AnyTrigger /\ audioAvailable) => audioCtx'
       /\ audioCtx => (audioCtx' /\ Context \notin Range(emitted'))
       /\ Context \in Range(emitted') => (AnyTrigger /\ ~audioCtx /\ audioCtx')]_vars

\* a trigger found the context of an earlier one, after the engine had been
\* disabled and enabled again, with a later tone still waiting
ContextOnceWitness ==
    /\ audioCtx
    /\ enabled
    /\ emitted = <<Osc(300, "sawtooth", 100, 20)>>
    /\ \E k \in DOMAIN timers : timers[k].muted

---------------------------------------------------------------------------
(* Properties of the views and of the timed effects *)

\* C21: from the first render on, whichever of the loading screen, the main
\* list, the credits overlay and the celebration overlay is on the screen, the
\* title 'React Todo App' is on it too.
TitleRendered ==
    View \in {"loading", "main", "credits", "celebration"} => Title \in Rendered

\* the celebration overlay is up, with callbacks of the burst still waiting
TitleRenderedWitness ==
    /\ View = "celebration"
    /\ timeouts # <<>>
    /\ "SYSTEM LOG" \in Rendered

---------------------------------------------------------------------------
(* The handlers with the output of the sound engine followed *)

InitFeedback ==
    /\ \E nc \in {<<0, 0>>, <<1, 0>>, <<1, 1>>, <<2, 1>>}, audio \in BOOLEAN :
          Started(StoredList(nc[1], nc[2]), audio)
    /\ monitored = TRUE

NextFeedback == Change \/ addTodo \/ Toggle \/ Delete \/ TimerFires

SpecFeedback == InitFeedback /\ [][NextFeedback]_vars

---------------------------------------------------------------------------
(* Properties of the feedback *)

\* the oscillators among the backend objects a step created
Tones(objects) == SelectSeq(objects, LAMBDA o : o.node = "Oscillator")

\* the step called no trigger of the engine
Silent == error' = "none" /\ emitted' = <<>> /\ timers' = timers

\* the step called the trigger that starts with this tone, once: the tone is
\* the only one created in the step, or the call ended in init() throwing
Heard(tone) == error' = "TypeError" \/ Tones(emitted') = <<tone>>

\* C22: a handler calls the trigger of its outcome, once: an add that grew
\* the list playAdd, a toggle that flipped a task playToggle with the new value
\* of completed, a delete that removed a task playDelete; and a handler that
\* left the list as it was (blank add, toggle or delete of an absent id) calls
\* no trigger.
FeedbackMatchesOutcome ==
    [][/\ addTodo =>
             IF todosState' # todosState
             THEN Heard(Osc(400, "sine", 100, 50))
             ELSE Silent
       /\ \A id \in IdSpace :
             toggleTodo(id) =>
                IF todosState' # todosState
                THEN Heard(IF Find(todosState', id)[1].completed
                           THEN Osc(1200, "sine", 100, 30)
                           ELSE Osc(600, "sine", 100, 30))
                ELSE Silent
       /\ \A id \in IdSpace :
             deleteTodo(id) =>
                IF todosState' # todosState
                THEN Heard(Osc(300, "sawtooth", 100, 20))
                ELSE Silent]_vars

\* the step set one timer, for this tone, whose callback goes through the test
\* of createOscillator, and left the waiting ones alone
Defers(tone) ==
    /\ Len(timers') = Len(timers) + 1
    /\ SubSeq(timers', 1, Len(timers)) = timers
    /\ timers'[Len(timers')].tone = tone
    /\ timers'[Len(timers')].guarded

\* C23: with the engine enabled and an audio backend, playAdd sounds 400 Hz in
\* the call and leaves 600 Hz to a timer, playToggle(true) sounds 1200 Hz in
\* the call and leaves 1500 Hz to a timer, playToggle(false) sounds 600 Hz and
\* playDelete 300 Hz (sawtooth) in the call and set no timer; the callback of
\* such a timer sounds its tone, and nothing else, if the engine is enabled
\* when it runs, and nothing if it is not.
ToneSequences ==
    [][/\ (enabled /\ audioAvailable) =>
             /\ AddSound =>
                   /\ Tones(emitted') = <<Osc(400, "sine", 100, 50)>>
                   /\ Defers(Osc(600, "sine", 150, 50))
             /\ Sound(playToggle(TRUE)) =>
                   /\ Tones(emitted') = <<Osc(1200, "sine", 100, 30)>>
                   /\ Defers(Osc(1500, "sine", 200, 20))
             /\ Sound(playToggle(FALSE)) =>
                   /\ Tones(emitted') = <<Osc(600, "sine", 100, 30)>>
                   /\ timers' = timers
             /\ DeleteSound =>
                   /\ Tones(emitted') = <<Osc(300, "sawtooth", 100, 20)>>
                   /\ timers' = timers
       /\ \A k \in DOMAIN timers :
             (FireTimer(k) /\ timers[k].guarded) =>
                /\ Len(timers') = Len(timers) - 1
                /\ emitted' = IF enabled THEN <<timers[k].tone>> ELSE <<>>]_vars

\* the second tone of playToggle(true) has sounded, from its timer
ToneSequencesWitness ==
    /\ enabled
    /\ emitted = <<Osc(1500, "sine", 200, 20)>>

\* C24: a call of playVictory, whatever the state of the engine, returns
\* without an exception and without having started a voice, and leaves five
\* voices to timers: 1, 1.5, 2, 2.5 and 3 times the base frequency, of which
\* a callback starts its own and never one of a higher ratio before one of a
\* lower ratio of the same call.
VictoryVoices ==
    [][/\ Victory =>
             /\ error' = "none"
             /\ Tones(emitted') = <<>>
             /\ Len(timers') = Len(timers) + 5
             /\ [i \in 1 .. 5 |-> timers'[Len(timers) + i].tone.freq]
                   = <<220, 330, 440, 550, 660>>
       /\ \A k \in DOMAIN timers :
             (FireTimer(k) /\ ~timers[k].guarded) =>
                /\ emitted' = <<timers[k].tone>>
                /\ \A i \in 1 .. (k - 1) :
                      timers[i].guarded \/ timers[i].tone.freq > timers[k].tone.freq
      ]_vars

\* C25: a call of a trigger leaves every waiting callback as it is, in place
\* and with its tone and delay, and only adds its own behind them; setEnabled
\* leaves them alone; a callback that runs removes itself only and creates no
\* tone but its own, in an oscillator and gain node of its own.  So what is
\* sounded in the end is what each call sounds by itself.
NoInterference ==
    [][/\ AnyTrigger =>
             /\ Len(timers') >= Len(timers)
             /\ SubSeq(timers', 1, Len(timers)) = timers
       /\ Switch => timers' = timers
       /\ \A k \in DOMAIN timers :
             FireTimer(k) =>
                /\ Len(timers') = Len(timers) - 1
                /\ \A i \in DOMAIN timers' :
                      timers'[i] = timers[IF i < k THEN i ELSE i + 1]
                /\ Tones(emitted') \in {<<>>, <<timers[k].tone>>}
                /\ emitted' = Tones(emitted')]_vars

\* a toggle followed at once by a delete: the tone of the delete has sounded
\* while the second tone of the toggle is still waiting
NoInterferenceWitness ==
    /\ emitted = <<Osc(300, "sawtooth", 100, 20)>>
    /\ timers = <<Timer(Osc(1500, "sine", 200, 20), 40, TRUE)>>
    /\ enabled

---------------------------------------------------------------------------
(* Properties of what the handlers leave alone *)

\* what no operation may alter in a task
Fixed(t) == <<t.id, t.text, t.priority>>

\* the tasks of a list that have another id, in their order
Others(list, id) == SelectSeq(list, LAMBDA t : t.id # id)

\* The latest call recorded after a step is the handler of that step, or the
\* step is none of a list handler and leaves the list as it is.
\* C26: a toggle keeps the length and the order of the list and the id, text
\* and priority of every task, and keeps a task of another id as it is; a
\* delete keeps the tasks of another id as they are and in their order, and
\* removes none or all of the tasks of its id; an add keeps the list as it is
\* or puts one task in front of it; and whatever the step, a task of the list
\* after it, the new head of an add excepted, has the id, text and priority of
\* a task of the list before it.
MutationsFrame ==
    [][LET id == call'.id
       IN  /\ call'.op = "toggle" =>
                 /\ Len(todosState') = Len(todosState)
                 /\ \A i \in DOMAIN todosState :
                       /\ Fixed(todosState'[i]) = Fixed(todosState[i])
                       /\ todosState[i].id # id => todosState'[i] = todosState[i]
           /\ call'.op = "delete" =>
                 /\ Others(todosState', id) = Others(todosState, id)
                 /\ \/ todosState' = todosState
                    \/ todosState' = Others(todosState', id)
           /\ call'.op \in {"add", "rejected"} =>
                 \/ todosState' = todosState
                 \/ todosState' # <<>> /\ Tail(todosState') = todosState
           /\ \A i \in DOMAIN todosState' :
                 \/ call'.op = "add" /\ i = 1
                 \/ \E j \in DOMAIN todosState :
                       Fixed(todosState'[i]) = Fixed(todosState[j])]_vars

\* the first of two tasks has been toggled: the list differs from the one the
\* toggle found, and its second task is another one
MutationsFrameWitness ==
    /\ call.op = "toggle"
    /\ call.n = 1
    /\ Len(todosState) = 2
    /\ call.id = todosState[1].id
    /\ call.before # todosState
    /\ Fixed(todosState[2]) # Fixed(todosState[1])

\* the persistence effect has run, without failing, for the list as it is now
Synced == ~effectPending /\ ~Crashed /\ todos = todosState

\* C27: whenever the persistence effect has run for the latest change of the
\* list, the item stored under 'react-todo-list' is the JSON text of the list
\* in memory; from the first run of the effect after the mount on, and after
\* every add, toggle, delete, reorder and clear.
PersistedMatches == Synced => localStorage = Item(JSONstringify(todosState))

\* a reorder of two tasks has been rendered, and its effect has run: the new
\* order is stored
PersistedMatchesWitness ==
    /\ Synced
    /\ ~loading
    /\ call.op = "reorder"
    /\ Len(todosState) = 2
    /\ todosState[1].id > todosState[2].id
    /\ localStorage.present

\* C28: a step that changes the loading screen or its progress, the selected
\* priority, the credits or the celebration overlay, the shake, the particles
\* or shockwaves, or the callbacks of triggerBurst that wait (triggerBurst and
\* each of its callbacks, a tick of the loading interval, a click on the title
\* or on the credits overlay, a click on the priority) leaves the task list
\* and the stored item as they are.
CosmeticFrame ==
    [][(\/ visual' # visual
        \/ loading' # loading
        \/ loadingProgress' # loadingProgress
        \/ priority' # priority)
       => UNCHANGED <<todosState, todos, localStorage>>]_vars

\* the celebration has come up behind the credits, after the priority had been
\* changed, and the completed tasks are still in the list and in the store
CosmeticFrameWitness ==
    /\ showCelebration
    /\ showCredits
    /\ priority = "High"
    /\ particles = <<>>
    /\ VictoryShown
    /\ localStorage = Item(JSONstringify(todosState))

\* a callback of the b-th call of triggerBurst is waiting
Waiting(b, does) ==
    \E k \in DOMAIN timeouts : timeouts[k].of = b /\ timeouts[k].does = does

\* C29: where the callbacks of triggerBurst run, after each call of it the
\* celebration comes up (showCelebration true) and every celebration that is
\* up goes again, the shake ends, and the particles and the shockwave of the
\* call leave their lists; once no callback waits, showCelebration and impact
\* are false and both lists are empty.  Calls that overlap are included.
BurstCleanup ==
    /\ \A b \in 1 .. MaxBursts :
          Waiting(b, "show") ~> (showCelebration /\ ~Waiting(b, "show"))
    /\ showCelebration ~> ~showCelebration
    /\ impact ~> ~impact
    /\ \A b \in 1 .. MaxBursts :
          (\E i \in DOMAIN particles : particles[i].of = b)
             ~> (\A i \in DOMAIN particles : particles[i].of # b)
    /\ \A id \in Instants :
          (\E i \in DOMAIN shockwaves : shockwaves[i].id = id)
             ~> (\A i \in DOMAIN shockwaves : shockwaves[i].id # id)
    /\ [](timeouts = <<>> =>
             /\ ~showCelebration
             /\ ~impact
             /\ particles = <<>>
             /\ shockwaves = <<>>)

\* triggerBurst has been called a second time before any callback of the
\* first call has run
BurstCleanupWitness ==
    /\ bursts = 2
    /\ Len(timeouts) = 10
    /\ impact
    /\ Len(particles) = 2 * ParticleCount
    /\ Len(shockwaves) = 2

\* C30: where the first render has succeeded and the interval runs, the
\* loading screen is up with the progress at 0, the progress never falls and
\* stays within 0 .. 100, the loading screen goes in the end and does not come
\* back, and while it is up no step changes the task list.
LoadingTerminates ==
    /\ <<loading, loadingProgress>> = <<TRUE, 0>>
    /\ [](loadingProgress \in 0 .. 100)
    /\ [][loadingProgress' >= loadingProgress]_vars
    /\ (loading /\ ~Crashed) ~> ~loading
    /\ [][~loading => ~loading']_vars
    /\ [][loading => UNCHANGED <<todosState, todos>>]_vars

\* the loading screen has gone at 100 and a task has been added since
LoadingTerminatesWitness ==
    /\ ~loading
    /\ loadingProgress = 100
    /\ call.op = "add"
    /\ Len(todosState) = 1

====
